---- MODULE Spec2Model ----
(***************************************************************************)
(* Model of src/yotagrabber/vehicles.py: the pagination loop of            *)
(* get_all_pages over query_toyota, and the pandas pipeline of             *)
(* update_vehicles (raw snapshot, dealer join, filters, price derivation,  *)
(* curated CSV), in live mode and in local-data (replay) mode.             *)
(*                                                                         *)
(* Conventions.  A nullable value (JSON null / None / NaN) is a set with   *)
(* at most one element: {} is null, {v} is the value v.  A table (pandas   *)
(* DataFrame) is a sequence of row records; the field idx is the row's     *)
(* index label, and src is a history field: the row's position in the      *)
(* table that get_all_pages / read_local_data returned.  VINs are          *)
(* abstracted to their rank in the sort order.                             *)
(***************************************************************************)
EXTENDS Integers, Sequences, FiniteSets, TLC

VARIABLES
    useLocal,     \* USE_LOCAL_DATA_ONLY of the current run
    run,          \* 1: first invocation, 2: replay invocation in local-data mode
    pc,           \* "start" | "fetching" | "loaded" | "done"
    page_number,  \* get_all_pages: page_number
    df,           \* the table returned by get_all_pages / read_local_data
    log,          \* history: one entry per request query_toyota has sent
    dealers,      \* data/dealers.csv, columns dealerId and state
    rawFile,      \* output/{MODEL}_raw.parquet on disk ({} if it does not exist)
    csvFile,      \* output/{MODEL}.csv as written by the current run ({} if not written)
    csvSrc,       \* history: for each row of csvFile, the src of the row it came from
    dealersRead,  \* the current run has read dealers.csv
    outcome,      \* "running" | "no_vehicles" | "written" | an exception name
    prev          \* outcome and csvFile of run 1, kept when the replay starts

vars == <<useLocal, run, pc, page_number, df, log, dealers, rawFile, csvFile,
          csvSrc, dealersRead, outcome, prev>>

-----------------------------------------------------------------------------
(* Bounds of the model *)

MaxPages == 2   \* pages past this one must end the pagination
MaxRows == 2    \* rows upstream returns in one run, over all pages

-----------------------------------------------------------------------------
(* Nullable values *)

Null == {}
IsNull(x) == x = {}
Val(x) == CHOOSE v \in x : TRUE

(* datetime.date.today().year *)
CurrentYear == 2026

-----------------------------------------------------------------------------
(* Input domains *)

Vins == {1, 2}
MatchedCode == <<"0", "1">>
UnmatchedCode == <<"0", "3">>
NonNumericCode == <<"x">>
GoodRow(v) == [vin |-> v, dealerCd |-> {MatchedCode}, color |-> {"White"},
               year |-> CurrentYear - 1, baseMsrp |-> 100, dio |-> {5}]

(* The rows upstream may return: a good row, or a good row changed in one field. *)
RowSet ==
    UNION { { GoodRow(v),
              [GoodRow(v) EXCEPT !.dealerCd = {UnmatchedCode}],
              [GoodRow(v) EXCEPT !.dealerCd = {NonNumericCode}],
              [GoodRow(v) EXCEPT !.dealerCd = Null],
              [GoodRow(v) EXCEPT !.color = Null],
              [GoodRow(v) EXCEPT !.year = CurrentYear - 2],
              [GoodRow(v) EXCEPT !.dio = Null],
              [GoodRow(v) EXCEPT !.dio = {0}] } : v \in Vins }

SeqsUpTo(S, n) == UNION { [1..k -> S] : k \in 0..n }

DealerTables ==
    { << [dealerId |-> 1, state |-> "CA"], [dealerId |-> 2, state |-> "TX"] >>,
      << [dealerId |-> 1, state |-> "CA"], [dealerId |-> 1, state |-> "NV"] >> }

-----------------------------------------------------------------------------
(* Helpers on sequences *)

Front(s) == SubSeq(s, 1, Len(s) - 1)
Last(s) == s[Len(s)]

RECURSIVE Flatten(_)
Flatten(ss) == IF ss = <<>> THEN <<>> ELSE Head(ss) \o Flatten(Tail(ss))

-----------------------------------------------------------------------------
(* query_toyota and get_all_pages *)

(* What upstream can answer to one request:
     rows        data.locateVehiclesByZip.vehicleSummary is a non-empty list
     empty_list  data.locateVehiclesByZip.vehicleSummary is []
     no_result   data.locateVehiclesByZip is null or {}
     no_field    data.locateVehiclesByZip has no vehicleSummary key
     error       requests.post or resp.json() raises (transport failure,
                 timeout, body that is not JSON)                              *)
Terminators == { [kind |-> k, rows |-> <<>>] : k \in {"no_result", "no_field", "error"} }

Responses(room) ==
    { [kind |-> "rows", rows |-> rs] : rs \in SeqsUpTo(RowSet, room) \ {<<>>} }
        \cup { [kind |-> "empty_list", rows |-> <<>>] }

(* query_toyota, line 60: None for a falsy result or one without the
   vehicleSummary key, the result object otherwise. *)
QueryToyota(resp) ==
    IF resp.kind = "no_result" \/ resp.kind = "no_field" THEN Null ELSE {resp}

(* get_all_pages, line 84: `not result`.  A result that query_toyota returns
   is a dict holding the key vehicleSummary, hence truthy whatever the list. *)
NotResult(result) == IsNull(result)

(* pd.json_normalize of one page: one row per entry, index labels 0..n-1. *)
JsonNormalize(rows, base) ==
    [i \in 1..Len(rows) |->
        [idx |-> i - 1, src |-> base + i, vin |-> rows[i].vin,
         dealerCd |-> rows[i].dealerCd, color |-> rows[i].color,
         year |-> rows[i].year, baseMsrp |-> rows[i].baseMsrp, dio |-> rows[i].dio]]

ConcatPrepend(d, page) == page \o d

(* pd.concat([df, page]): the page's rows after the rows already held, index
   labels kept as they are. *)
Concat(d, page) == d \o page

(* The columns of a table, without index labels and history. *)
Columns(d) ==
    [i \in 1..Len(d) |->
        [vin |-> d[i].vin, dealerCd |-> d[i].dealerCd, color |-> d[i].color,
         year |-> d[i].year, baseMsrp |-> d[i].baseMsrp, dio |-> d[i].dio]]

(* One iteration of the loop of get_all_pages (lines 78-92), or the loop's end
   and the return (lines 84-86, 94); an exception of query_toyota leaves
   get_all_pages and update_vehicles. *)
FetchPage ==
    /\ pc = "fetching"
    /\ \E resp \in Terminators \cup
                   (IF page_number <= MaxPages
                    THEN Responses(MaxRows - Len(df)) ELSE {}) :
        /\ log' = Append(log, [page |-> page_number, kind |-> resp.kind,
                               rows |-> resp.rows])
        /\ IF resp.kind = "error"
           THEN /\ pc' = "done"
                /\ outcome' = "RequestException"
                /\ UNCHANGED <<df, page_number>>
           ELSE IF NotResult(QueryToyota(resp))
           THEN /\ pc' = "loaded"
                /\ UNCHANGED <<df, page_number, outcome>>
           ELSE /\ df' = Concat(df, JsonNormalize(Val(QueryToyota(resp)).rows, Len(df)))
                /\ page_number' = page_number + 1
                /\ UNCHANGED <<pc, outcome>>
    /\ UNCHANGED <<useLocal, run, dealers, rawFile, csvFile, csvSrc, dealersRead, prev>>

-----------------------------------------------------------------------------
(* The pandas steps of update_vehicles *)

IsEmptyNever(d) == FALSE

(* df.empty *)
IsEmpty(d) == Len(d) = 0

(* sort_values on the VIN column (lines 111 and 220).  pandas sorts a single
   column with numpy's quicksort, which sorts runs of fewer than 17 elements
   by insertion: on the tables of this model the sort is stable.  Index labels
   travel with their rows. *)
RECURSIVE InsertByVin(_, _)
InsertByVin(r, s) ==
    IF s = <<>> THEN <<r>>
    ELSE IF r.vin < Head(s).vin THEN <<r>> \o s
    ELSE <<Head(s)>> \o InsertByVin(r, Tail(s))

RECURSIVE SortByVin(_)
SortByVin(d) == IF d = <<>> THEN <<>> ELSE InsertByVin(Last(d), SortByVin(Front(d)))

ToParquetDedup(d) ==
    Columns(SelectSeq(d, LAMBDA r : \A q \in 1..Len(d) :
                            (d[q].vin = r.vin) => d[q].src >= r.src))

(* df.to_parquet(..., index=False): the columns, without the index labels. *)
ToParquet(d) == Columns(d)

(* pd.read_parquet: the stored rows under a fresh RangeIndex. *)
ReadParquet(stored) == JsonNormalize(stored, 0)

(* pd.to_numeric on one dealer code (line 119, applied element by element,
   errors="raise"): a string of digits parses to its decimal value, None
   becomes NaN, any other string raises ValueError. *)
Digits == {"0", "1", "2", "3", "4", "5", "6", "7", "8", "9"}
DigitVal(c) ==
    CASE c = "0" -> 0 [] c = "1" -> 1 [] c = "2" -> 2 [] c = "3" -> 3 [] c = "4" -> 4
      [] c = "5" -> 5 [] c = "6" -> 6 [] c = "7" -> 7 [] c = "8" -> 8 [] c = "9" -> 9

RECURSIVE Decimal(_)
Decimal(str) == IF str = <<>> THEN 0 ELSE Decimal(Front(str)) * 10 + DigitVal(Last(str))

ToNumericRaises(code) ==
    /\ ~IsNull(code)
    /\ \/ Len(Val(code)) = 0
       \/ \E i \in 1..Len(Val(code)) : Val(code)[i] \notin Digits

ToNumeric(code) == IF IsNull(code) THEN Null ELSE {Decimal(Val(code))}

CoerceDealerCd(d) == [i \in 1..Len(d) |-> [d[i] EXCEPT !.dealerCd = ToNumeric(@)]]

(* One row of the merge result: the vehicle row with the dealer's state. *)
Joined(r, state) ==
    [idx |-> r.idx, src |-> r.src, vin |-> r.vin, dealerCd |-> r.dealerCd,
     color |-> r.color, year |-> r.year, baseMsrp |-> r.baseMsrp, dio |-> r.dio,
     dealerState |-> state]

(* The dealer rows whose dealerId equals the row's numeric dealer code (NaN
   equals no dealerId of the table), in the table's order. *)
Matches(r, table) ==
    LET hit == SelectSeq(table, LAMBDA t : r.dealerCd = {t.dealerId})
    IN  [j \in 1..Len(hit) |-> Joined(r, {hit[j].state})]

RECURSIVE MergeRows(_, _)
MergeRows(d, table) ==
    IF d = <<>> THEN <<>> ELSE Matches(Head(d), table) \o MergeRows(Tail(d), table)

ResetIndex(d) == [i \in 1..Len(d) |-> [d[i] EXCEPT !.idx = i - 1]]

MergeKeepIndex(d, table) == MergeRows(d, table)

RECURSIVE MergeLeftRows(_, _)
MergeLeftRows(d, table) ==
    IF d = <<>> THEN <<>>
    ELSE (IF Matches(Head(d), table) = <<>> THEN <<Joined(Head(d), Null)>>
          ELSE Matches(Head(d), table)) \o MergeLeftRows(Tail(d), table)

MergeLeft(d, table) == ResetIndex(MergeLeftRows(d, table))

(* df.merge(dealers, left_on="dealerCd", right_on="dealerId"): inner join in
   the order of the left rows; the result has a fresh RangeIndex. *)
Merge(d, table) == ResetIndex(MergeRows(d, table))

(* df[df["Color"].notna()]: the surviving rows keep their index labels. *)
DropNullColor(d) == SelectSeq(d, LAMBDA r : ~IsNull(r.color))

(* Base MSRP + price.dioTotalDealerSellingPrice: NaN when the latter is NaN. *)
AddPrice(base, dio) == IF IsNull(dio) THEN Null ELSE {base + Val(dio)}

FillNaNothing(x, y) == x

(* Series.fillna *)
FillNa(x, y) == IF IsNull(x) THEN {y} ELSE x

DealerPrice(base, dio) == FillNa(AddPrice(base, dio), base)

(* Dealer Price - Base MSRP: NaN when Dealer Price is NaN. *)
Minus(x, y) == IF IsNull(x) THEN Null ELSE {Val(x) - y}

(* datetime.date.today().year - 1 *)
LastYear == CurrentYear - 1

(* df.drop(df[df["Year"] < last_year].index): drops every row that carries the
   index label of a stale row. *)
DropStale(d) ==
    LET labels == { d[i].idx : i \in { k \in 1..Len(d) : d[k].year < LastYear } }
    IN  SelectSeq(d, LAMBDA r : r.idx \notin labels)

(* The curated columns of a row (lines 140-217); the columns no property here
   reads (Model, Drivetrain, Shipping Status, Pre-Sold, Hold Status, Dealer,
   Options) are left out. *)
Curated(r) ==
    [Year |-> r.year, Color |-> r.color, BaseMSRP |-> r.baseMsrp,
     Markup |-> Minus(DealerPrice(r.baseMsrp, r.dio), r.baseMsrp),
     DealerPrice |-> DealerPrice(r.baseMsrp, r.dio),
     VIN |-> r.vin, DealerState |-> r.dealerState]

(* Lines 119-220 on the table that enters the join. *)
Transform(d, table) ==
    SortByVin(DropStale(DropNullColor(Merge(CoerceDealerCd(d), table))))

-----------------------------------------------------------------------------
(* update_vehicles *)

(* read_local_data (lines 37-39, called at line 102). *)
ReadLocal ==
    /\ pc = "start"
    /\ useLocal
    /\ IF IsNull(rawFile)
       THEN /\ pc' = "done"
            /\ outcome' = "FileNotFoundError"
            /\ UNCHANGED df
       ELSE /\ pc' = "loaded"
            /\ df' = ReadParquet(Val(rawFile))
            /\ UNCHANGED outcome
    /\ UNCHANGED <<useLocal, run, page_number, log, dealers, rawFile, csvFile,
                   csvSrc, dealersRead, prev>>

(* update_vehicles from line 104 to its end, on the table line 102 obtained. *)
Curate ==
    /\ pc = "loaded"
    /\ pc' = "done"
    /\ IF IsEmpty(df)
       THEN /\ outcome' = "no_vehicles"
            /\ UNCHANGED <<rawFile, csvFile, csvSrc, dealersRead>>
       ELSE LET sorted == IF useLocal THEN df ELSE SortByVin(df)
                out == Transform(sorted, dealers)
            IN  /\ rawFile' = IF useLocal THEN rawFile ELSE {ToParquet(sorted)}
                /\ dealersRead' = TRUE
                /\ IF \E i \in 1..Len(sorted) : ToNumericRaises(sorted[i].dealerCd)
                   THEN /\ outcome' = "ValueError"
                        /\ UNCHANGED <<csvFile, csvSrc>>
                   ELSE /\ outcome' = "written"
                        /\ csvFile' = {[i \in 1..Len(out) |-> Curated(out[i])]}
                        /\ csvSrc' = [i \in 1..Len(out) |-> out[i].src]
    /\ UNCHANGED <<useLocal, run, page_number, df, log, dealers, prev>>

(* A second invocation with USE_LOCAL_DATA_ONLY = True (line 16), after a live
   invocation that wrote the raw snapshot; dealers.csv is the same file. *)
Replay ==
    /\ pc = "done"
    /\ run = 1
    /\ ~useLocal
    /\ ~IsNull(rawFile)
    /\ run' = 2
    /\ useLocal' = TRUE
    /\ pc' = "start"
    /\ page_number' = 1
    /\ df' = <<>>
    /\ log' = <<>>
    /\ csvFile' = Null
    /\ csvSrc' = <<>>
    /\ dealersRead' = FALSE
    /\ outcome' = "running"
    /\ prev' = [outcome |-> outcome, csvFile |-> csvFile]
    /\ UNCHANGED <<dealers, rawFile>>

(* A snapshot as line 111-112 leaves it: sorted by VIN. *)
IsSortedByVin(stored) == \A i \in 1..Len(stored) - 1 : stored[i].vin <= stored[i + 1].vin

Snapshots == { stored \in SeqsUpTo(RowSet, MaxRows) : IsSortedByVin(stored) }

Init ==
    /\ useLocal \in BOOLEAN
    /\ run = 1
    /\ pc = IF useLocal THEN "start" ELSE "fetching"
    /\ page_number = 1
    /\ df = <<>>
    /\ log = <<>>
    /\ dealers \in DealerTables
    /\ rawFile \in IF useLocal THEN {Null} \cup { {stored} : stored \in Snapshots }
                   ELSE {Null}
    /\ csvFile = Null
    /\ csvSrc = <<>>
    /\ dealersRead = FALSE
    /\ outcome = "running"
    /\ prev = [outcome |-> "running", csvFile |-> Null]

Next == FetchPage \/ ReadLocal \/ Curate \/ Replay

Spec == Init /\ [][Next]_vars

-----------------------------------------------------------------------------
(* Properties *)

Csv == Val(csvFile)
Written == pc = "done" /\ outcome = "written"

(* The row of df that row i of the curated output came from. *)
Source(i) == df[csvSrc[i]]

(* The row passes every filter of update_vehicles: its dealer code is numeric
   and in the dealer table, its Color is non-null, its Year is not stale. *)
Qualifies(r) ==
    /\ ~ToNumericRaises(r.dealerCd)
    /\ \E j \in 1..Len(dealers) : ToNumeric(r.dealerCd) = {dealers[j].dealerId}
    /\ ~IsNull(r.color)
    /\ r.year >= CurrentYear - 1

(* C1: pages are requested as 1, 2, 3, ... and no page is requested after a
   page that returned zero rows (no result object, no vehicle-list field, an
   empty vehicle list) or after a fetch error. *)
C1_StopsAfterFirstEmptyPage ==
    \A i \in 1..Len(log) :
        /\ log[i].page = i
        /\ (log[i].kind # "rows") => i = Len(log)

(* C2: after a fetch error on a page k > 1, with rows accumulated from the
   pages before it, the run goes on to the dealer join and writes the curated
   output over the rows collected. *)
C2_FetchErrorKeepsRows ==
    (/\ pc = "done"
     /\ Len(log) > 1
     /\ log[Len(log)].kind = "error"
     /\ Len(df) > 0)
        => (dealersRead /\ outcome # "RequestException")

(* C3: a row whose dealer code cannot be coerced to a number (non-numeric or
   missing) is dropped and the run does not end in an error: once pagination
   has returned such a row, the live run ends with the curated output
   written, holding no row that came from it and every row that qualifies. *)
C3_UncoercibleCodeDropsRow ==
    (/\ pc = "done"
     /\ ~useLocal
     /\ outcome # "RequestException"
     /\ \E k \in 1..Len(df) : IsNull(df[k].dealerCd) \/ ToNumericRaises(df[k].dealerCd))
        => /\ outcome = "written"
           /\ \A i \in 1..Len(Csv) : ~IsNull(Source(i).dealerCd)
                                     /\ ~ToNumericRaises(Source(i).dealerCd)
           /\ \A k \in 1..Len(df) : Qualifies(df[k]) => \E i \in 1..Len(Csv) : csvSrc[i] = k

(* C4 as stated: in every curated row, Dealer Price equals Base MSRP if and
   only if the row's price.dioTotalDealerSellingPrice is null, and is Base MSRP
   plus that field otherwise. *)
C4_DealerPriceIffNull ==
    Written =>
        \A i \in 1..Len(Csv) :
            /\ (Csv[i].DealerPrice = {Csv[i].BaseMSRP}) <=> IsNull(Source(i).dio)
            /\ ~IsNull(Source(i).dio) =>
                   Csv[i].DealerPrice = {Csv[i].BaseMSRP + Val(Source(i).dio)}

(* C4 amended: in every curated row, Dealer Price is Base MSRP when the row's
   price.dioTotalDealerSellingPrice is null and Base MSRP plus that field
   otherwise; it equals Base MSRP exactly when the field is null or zero. *)
C4_DealerPrice ==
    Written =>
        \A i \in 1..Len(Csv) :
            /\ IsNull(Source(i).dio) => Csv[i].DealerPrice = {Csv[i].BaseMSRP}
            /\ ~IsNull(Source(i).dio) =>
                   Csv[i].DealerPrice = {Csv[i].BaseMSRP + Val(Source(i).dio)}
            /\ (Csv[i].DealerPrice = {Csv[i].BaseMSRP})
                   <=> (IsNull(Source(i).dio) \/ Source(i).dio = {0})
            /\ Csv[i].BaseMSRP = Source(i).baseMsrp

C4_Witness ==
    /\ Written
    /\ \E i, j \in 1..Len(Csv) : IsNull(Source(i).dio) /\ Source(j).dio = {5}

(* C5: the curated output of a live run holds at most one row per VIN,
   whatever the pages and the dealer table. *)
C5_OneRowPerVin ==
    (Written /\ ~useLocal) => \A i, j \in 1..Len(Csv) : Csv[i].VIN = Csv[j].VIN => i = j

(* C6: the table get_all_pages returns holds the rows of the fetched pages in
   fetch order: page by page, each page's rows in upstream's order, none lost
   and none repeated. *)
C6_FetchOrder ==
    (~useLocal /\ pc \in {"loaded", "done"} /\ outcome # "RequestException")
        => Columns(df) = Flatten([i \in 1..Len(log) |-> log[i].rows])

C6_Witness ==
    /\ ~useLocal
    /\ pc = "loaded"
    /\ Len(log) = 3
    /\ log[1].kind = "rows"
    /\ log[2].kind = "rows"
    /\ log[1].rows # log[2].rows

(* C7: a run whose table (from pagination or from the local snapshot) has
   zero rows writes no curated file and no raw snapshot and does not read the
   dealer table; unless the table is missing because line 102 raised, the run
   reports that no vehicles were found and returns. *)
C7_NoVehiclesWritesNothing ==
    (pc = "done" /\ Len(df) = 0)
        => /\ IsNull(csvFile)
           /\ csvSrc = <<>>
           /\ ~dealersRead
           /\ ~useLocal => IsNull(rawFile)
           /\ outcome \notin {"RequestException", "FileNotFoundError"}
                  => outcome = "no_vehicles"

C7_Witness ==
    /\ pc = "done"
    /\ ~useLocal
    /\ outcome = "no_vehicles"
    /\ Len(log) = 2
    /\ log[1].kind = "empty_list"

(* C8: the join is inner: every curated row comes from a row whose numeric
   dealer code is a dealerId of the dealer table, and carries the state of a
   dealer row with that dealerId; a row whose code matches no dealerId is in no
   curated row. *)
C8_InnerJoin ==
    Written =>
        \A i \in 1..Len(Csv) :
            /\ ~ToNumericRaises(Source(i).dealerCd)
            /\ \E j \in 1..Len(dealers) :
                  /\ ToNumeric(Source(i).dealerCd) = {dealers[j].dealerId}
                  /\ Csv[i].DealerState = {dealers[j].state}
            /\ Csv[i].VIN = Source(i).vin

C8_Witness ==
    /\ Written
    /\ Len(Csv) >= 1
    /\ \E k \in 1..Len(df) : df[k].dealerCd = {UnmatchedCode}

(* C9: a run in local-data mode that reads the snapshot a live run wrote, with
   the same dealer table, ends as the live run did and writes the same curated
   output. *)
C9_ReplayEqualsLive ==
    (run = 2 /\ pc = "done") => (outcome = prev.outcome /\ csvFile = prev.csvFile)

C9_Witness ==
    /\ run = 2
    /\ Written
    /\ Len(Csv) >= 2
    /\ \E i, j \in 1..Len(Csv) : Csv[i].VIN = Csv[j].VIN /\ Csv[i] # Csv[j]

(* C10: in every run that ends without an exception, every row of the table
   line 102 obtained whose dealer code matches the dealer table, whose Color is
   non-null and whose Year is >= currentYear - 1 is in the curated output, also
   when pages repeat index labels: the drop of stale rows by index label
   removes no such row. *)
C10_FiltersDropOnlyTargets ==
    (pc = "done" /\ outcome \in {"written", "no_vehicles"}) =>
        \A k \in 1..Len(df) :
            Qualifies(df[k]) =>
                /\ outcome = "written"
                /\ \E i \in 1..Len(Csv) : csvSrc[i] = k /\ Csv[i].VIN = df[k].vin

C10_Witness ==
    /\ Written
    /\ ~useLocal
    /\ \E a, b \in 1..Len(df) :
          /\ df[a].idx = df[b].idx
          /\ df[a].year < CurrentYear - 1
          /\ Qualifies(df[b])
          /\ \E i \in 1..Len(Csv) : csvSrc[i] = b

====
